---- MODULE Spec2Model ----
(***************************************************************************)
(* Model of alzdc.py, the "Diet and Brain Health Explorer" script.         *)
(*                                                                         *)
(* The script is executed top to bottom on every run ("pass").  A pass     *)
(*   1. resets the module-level accumulators score/healthy/unhealthy,      *)
(*   2. asks the 8 questions (one ask() call per question),                *)
(*   3. computes percent_healthy and shows the quiz results and the pie,   *)
(*   4. loads the data set through the memoized load_and_prepare(),        *)
(*   5. shows preview, histograms, correlation matrix, regression and      *)
(*      scatter plot, or the error message when the file is not found,     *)
(*   6. shows the references.                                              *)
(* The labels "1–3", "4–6", ... of the source are written with an ASCII    *)
(* hyphen here.                                                            *)
(***************************************************************************)
EXTENDS Integers, Sequences, FiniteSets, TLC

VARIABLES
    pc,               \* position of the running pass in the script
    idx,              \* loop variable of "for idx, ... in enumerate(questions)"
    score,            \* module-level accumulator (line 22)
    healthy,          \* module-level accumulator (line 23)
    unhealthy,        \* module-level accumulator (line 24)
    total,            \* line 54
    percent_healthy,  \* line 55
    widgets,          \* session widget state: key q<idx> -> selected label
    out,              \* what the pass has handed to the page so far
    file,             \* content of brain_diet_data.csv, or Absent
    cache,            \* memo of st.cache_data for load_and_prepare
    df,               \* line 86 (<<>> before the first assignment)
    corr,             \* line 104 (<<>> before the first assignment)
    reg,              \* line 118 (<<>> before the first assignment)
    passes,           \* number of passes started so far
    ref               \* history: a finished quiz recorded for comparison

vars == <<pc, idx, score, healthy, unhealthy, total, percent_healthy, widgets,
          out, file, cache, df, corr, reg, passes, ref>>

quizVars == <<idx, score, healthy, unhealthy, total, percent_healthy>>
dataVars == <<df, corr, reg>>

(***************************************************************************)
(* Bounds of the model.                                                    *)
(***************************************************************************)
MaxPasses == 4      \* passes of one behaviour
MaxRows == 3        \* rows of a generated data set

(***************************************************************************)
(* Python float arithmetic, as far as line 55 needs it:                    *)
(*     int(healthy/total*100)                                              *)
(* is a true division of two ints (correctly rounded to a binary64), a     *)
(* binary64 multiplication by 100.0 (correctly rounded) and a truncation.  *)
(* A positive binary64 is a record [m, e]: the value is M * 2^e, where the *)
(* 53-bit significand M, 2^52 <= M < 2^53, is held in three limbs          *)
(*     m = <<m2, m1, m0>>,  M = m2 * 2^36 + m1 * 2^18 + m0,                *)
(* m2 of TopBits bits and m1, m0 of LimbBits bits, so that every           *)
(* intermediate number stays below 2^31.                                   *)
(***************************************************************************)
LimbBits == 18
TopBits == 17

RECURSIVE Pow2(_)
Pow2(k) == IF k = 0 THEN 1 ELSE 2 * Pow2(k - 1)

Limb == Pow2(LimbBits)

RECURSIVE BitLen(_)
\* Number of bits of n >= 0.
BitLen(n) == IF n = 0 THEN 0 ELSE 1 + BitLen(n \div 2)

RECURSIVE LeadShift(_, _)
\* The least k >= 0 with a * 2^k >= b, for 0 < a <= b.
LeadShift(a, b) == IF a >= b THEN 0 ELSE 1 + LeadShift(2 * a, b)

\* M + 1 on the limbs; the top limb may leave its TopBits bits.
Increment(m) ==
    IF m[3] + 1 < Limb THEN <<m[1], m[2], m[3] + 1>>
    ELSE IF m[2] + 1 < Limb THEN <<m[1], m[2] + 1, 0>>
    ELSE <<m[1] + 1, 0, 0>>

\* Round to nearest, ties to even (the binary64 rounding mode): m are the kept
\* bits, cmp compares the dropped part with one half of the last kept bit
\* (-1 below, 0 equal, 1 above), e is the exponent of the last kept bit.
RoundNearestEven(m, cmp, e) ==
    LET up == cmp > 0 \/ (cmp = 0 /\ m[3] % 2 = 1)
        r == IF up THEN Increment(m) ELSE m
    IN  IF r[1] >= Pow2(TopBits)
        THEN [m |-> <<r[1] \div 2, 0, 0>>, e |-> e + 1]
        ELSE [m |-> r, e |-> e]

\* a / b as Python computes it for ints 0 < a <= b < 2^12: the correctly
\* rounded binary64 quotient, by long division limb by limb.
FloatDiv(a, b) ==
    LET k == LeadShift(a, b)
        n2 == a * Pow2(k) * Pow2(TopBits - 1)
        n1 == (n2 % b) * Limb
        n0 == (n1 % b) * Limb
        rem == n0 % b
        cmp == IF rem = 0 THEN -1
               ELSE IF 2 * rem > b THEN 1 ELSE IF 2 * rem = b THEN 0 ELSE -1
    IN  RoundNearestEven(<<n2 \div b, n1 \div b, n0 \div b>>, cmp,
                         -k - (TopBits - 1) - 2 * LimbBits)

\* x * c as Python computes it for a positive binary64 x and an int c,
\* 0 < c < 2^7, converted to float: the correctly rounded binary64 product.
FloatMul(x, c) ==
    LET v0 == x.m[3] * c
        v1 == x.m[2] * c + v0 \div Limb
        v2 == x.m[1] * c + v1 \div Limb
        p1 == v1 % Limb
        p0 == v0 % Limb
        d == BitLen(v2) - TopBits           \* bits to drop
        D == Pow2(d)
        U == Pow2(LimbBits - d)
        low == p0 % D
        cmp == IF d = 0 \/ low = 0 THEN -1
               ELSE IF 2 * low > D THEN 1 ELSE IF 2 * low = D THEN 0 ELSE -1
    IN  RoundNearestEven(<<v2 \div D,
                           (v2 % D) * U + p1 \div D,
                           (p1 % D) * U + p0 \div D>>, cmp, x.e + d)

\* int(x) for a positive binary64 x below 2^31: truncation toward zero.
FloatToInt(x) ==
    LET s == -x.e
    IN  IF s >= TopBits + 2 * LimbBits THEN 0
        ELSE IF s >= 2 * LimbBits THEN x.m[1] \div Pow2(s - 2 * LimbBits)
        ELSE x.m[1] * Pow2(2 * LimbBits - s) + x.m[2] \div Pow2(s - LimbBits)

\* int(a/b*c) of line 55, with 0 <= a <= b, 0 < b.
IntOfRatioTimes(a, b, c) ==
    IF a = 0 THEN 0 ELSE FloatToInt(FloatMul(FloatDiv(a, b), c))

(***************************************************************************)
(* The questionnaire (lines 38-47).                                        *)
(***************************************************************************)
questions == <<
    [prompt  |-> "Servings of leafy greens per week",
     options |-> <<"None", "1-3", "4-6", "7+">>,
     mapping |-> ("1-3" :> 1 @@ "4-6" :> 2 @@ "7+" :> 3)],
    [prompt  |-> "Servings of berries per week",
     options |-> <<"None", "1-2", "3-4", "5+">>,
     mapping |-> ("1-2" :> 1 @@ "3-4" :> 2 @@ "5+" :> 3)],
    [prompt  |-> "Servings of fish per week",
     options |-> <<"None", "1-2", "3-4", "5+">>,
     mapping |-> ("1-2" :> 1 @@ "3-4" :> 2 @@ "5+" :> 3)],
    [prompt  |-> "Servings of nuts per week",
     options |-> <<"None", "1-2", "3-4", "5+">>,
     mapping |-> ("1-2" :> 1 @@ "3-4" :> 2 @@ "5+" :> 3)],
    [prompt  |-> "Use of olive oil daily",
     options |-> <<"Never", "Sometimes", "Daily">>,
     mapping |-> ("Sometimes" :> 1 @@ "Daily" :> 2)],
    [prompt  |-> "Servings of whole grains per day",
     options |-> <<"<1", "1-2", "3-4", "5+">>,
     mapping |-> ("1-2" :> 1 @@ "3-4" :> 2 @@ "5+" :> 3)],
    [prompt  |-> "Servings of red meat per week",
     options |-> <<"5+", "3-4", "1-2", "None">>,
     mapping |-> ("3-4" :> -1 @@ "5+" :> -2)],
    [prompt  |-> "Sugary snacks or soda per week",
     options |-> <<"Daily", "Several", "Weekly", "Rarely">>,
     mapping |-> ("Several" :> -1 @@ "Daily" :> -2)] >>

NumQuestions == Len(questions)

\* The labels st.selectbox offers for the question asked at loop index i.
Options(i) == {questions[i + 1].options[k] : k \in 1..Len(questions[i + 1].options)}

\* A label no question offers.
Other == "Other"

\* A lookup that ignores the default it is given.
GetDefaultOne(mapping, key, default) ==
    IF key \in DOMAIN mapping THEN mapping[key] ELSE 1

\* dict.get(key, default) (line 30).
Get(mapping, key, default) ==
    IF key \in DOMAIN mapping THEN mapping[key] ELSE default

\* delta = mapping.get(ans, 0) for the question asked at loop index i.
Delta(i, ans) == Get(questions[i + 1].mapping, ans, 0)

\* "if delta >= 0" in place of line 32
CountHealthyNonNegative(h, delta) == IF delta >= 0 THEN h + 1 ELSE h

\* lines 32-33
CountHealthy(h, delta) == IF delta > 0 THEN h + 1 ELSE h

\* "elif delta <= 0" in place of line 34
CountUnhealthyNonPositive(u, delta) ==
    IF delta > 0 THEN u ELSE IF delta <= 0 THEN u + 1 ELSE u

\* lines 32-35: the elif branch is reached only when delta > 0 fails
CountUnhealthy(u, delta) ==
    IF delta > 0 THEN u ELSE IF delta < 0 THEN u + 1 ELSE u

\* The share of all questions in place of the share of the counted answers.
PercentOfQuestions(h, t) ==
    IF t > 0 THEN IntOfRatioTimes(h, NumQuestions, 100) ELSE 0

\* line 55: int(healthy/total*100) if total>0 else 0
PercentHealthy(h, t) == IF t > 0 THEN IntOfRatioTimes(h, t, 100) ELSE 0

\* st.selectbox(question, options, key="q<i>"): the session's value of the
\* widget (line 29).
Selectbox(i) == widgets[i + 1]

\* A new session shows every selectbox at its first option.
Defaults == [q \in 1..NumQuestions |-> questions[q].options[1]]

RECURSIVE AnswerSets(_, _)
\* Every way to pick, for the first n questions, one label of choices[q].
AnswerSets(choices, n) ==
    IF n = 0 THEN {<<>>}
    ELSE {Append(w, l) : w \in AnswerSets(choices, n - 1), l \in choices[n]}

\* The two answer sets of the specification's worked examples and the defaults.
BestAnswers == <<"7+", "5+", "5+", "5+", "Daily", "5+", "None", "Rarely">>
WorstAnswers == <<"None", "None", "None", "None", "Never", "<1", "5+", "Daily">>

(***************************************************************************)
(* The data set (lines 74-83) and its statistics (lines 103-104, 116-118). *)
(***************************************************************************)
\* A value that may be missing is the empty set or the set of the value.
None == {}
Some(x) == {x}
The(s) == CHOOSE x \in s : TRUE

Absent == None           \* brain_diet_data.csv does not exist
NaN == "nan"

InputColumns == {"leafy_greens", "berries", "fish", "nuts", "olive_oil",
                 "red_meat", "sweets", "fast_food", "cognitive_score",
                 "microbiome_diversity", "amyloid_beta", "tau_protein"}

vars_corr == <<"diet_score", "cognitive_score", "microbiome_diversity",
               "amyloid_beta", "tau_protein">>

Row(lg, be, fi, nu, oo, rm, sw, ff, cog, mic, amy, tau) ==
    [leafy_greens |-> lg, berries |-> be, fish |-> fi, nuts |-> nu,
     olive_oil |-> oo, red_meat |-> rm, sweets |-> sw, fast_food |-> ff,
     cognitive_score |-> cog, microbiome_diversity |-> mic,
     amyloid_beta |-> amy, tau_protein |-> tau]

\* Rows the generated data sets are made of.
RowPool == { Row(2, 1, 0, 1, 1,  1, 0, 1,  3, 2, 1, 1),
             Row(0, 0, 1, 0, 0,  2, 1, 0,  1, 1, 3, 2),
             Row(1, 2, 1, 0, 1,  0, 0, 0,  4, 3, 0, 3),
             Row(1, 0, 0, 2, 0,  0, 2, 1,  2, 1, 2, 0),
             Row(0, 1, 2, 1, 2,  1, 1, 2,  3, 0, 1, 2) }

RECURSIVE TablesOfLen(_)
TablesOfLen(n) ==
    IF n = 0 THEN {<<>>}
    ELSE {Append(t, r) : t \in TablesOfLen(n - 1), r \in RowPool}

\* Well-formed files: 2 to MaxRows rows.
Tables == UNION {TablesOfLen(n) : n \in 2..MaxRows}

\* What the file system may hold under the name brain_diet_data.csv.
Files(tables) == {Absent} \cup {Some(t) : t \in tables}

\* Two files the application is run against.
Fixtures == {
    << Row(2, 1, 0, 1, 1,  1, 0, 1,  3, 2, 1, 1),
       Row(0, 0, 1, 0, 0,  2, 1, 0,  1, 1, 3, 2),
       Row(1, 2, 1, 0, 1,  0, 0, 0,  4, 3, 0, 3) >>,
    << Row(1, 0, 0, 2, 0,  0, 2, 1,  2, 1, 2, 0),
       Row(0, 1, 2, 1, 2,  1, 1, 2,  3, 0, 1, 2) >> }

\* The five variables the comment of line 77 speaks of, and no other.
DietScoreFiveColumns(r) ==
    r.leafy_greens + r.berries + r.fish + r.nuts + r.olive_oil

\* lines 78-82
DietScore(r) ==
    r.leafy_greens + r.berries + r.fish + r.nuts + r.olive_oil
    - r.red_meat - r.sweets - r.fast_food

\* pd.read_csv followed by the assignment of the diet_score column.
load_and_prepare(f) ==
    [i \in 1..Len(f) |-> [c \in InputColumns \cup {"diet_score"} |->
        IF c = "diet_score" THEN DietScore(f[i]) ELSE f[i][c]]]

RECURSIVE Sum(_)
\* The sum of a sequence of numbers.
Sum(xs) == IF xs = <<>> THEN 0 ELSE xs[1] + Sum(Tail(xs))

\* Column c of table t, as a sequence.
Column(t, c) == [i \in 1..Len(t) |-> t[i][c]]

\* n^2 times the (population) covariance of columns a and b of table t.
CovN(t, a, b) ==
    LET n == Len(t)
        products == [i \in 1..n |-> t[i][a] * t[i][b]]
    IN  n * Sum(products) - Sum(Column(t, a)) * Sum(Column(t, b))

RECURSIVE Gcd(_, _)
Gcd(x, y) == IF y = 0 THEN x ELSE Gcd(y, x % y)

Abs(x) == IF x < 0 THEN -x ELSE x

\* The fraction num/den, den > 0, in lowest terms.
Fraction(num, den) ==
    LET g == Gcd(Abs(num), den) IN <<num \div g, den \div g>>

\* A coefficient normalised by the variance of its first column alone.
PearsonByFirstVariance(t, a, b) ==
    LET c == CovN(t, a, b)
        v == CovN(t, a, a) * CovN(t, a, a)
    IN  IF v = 0 THEN NaN
        ELSE Fraction((IF c < 0 THEN -1 ELSE 1) * c * c, v)

\* Pearson's r of columns a and b, exactly: r is sign(cov) * sqrt(q) for the
\* rational q = cov^2 / (var_a * var_b); the entry is the fraction
\* sign(cov) * q in lowest terms (r = 1 is <<1, 1>>), or NaN when a column is
\* constant.  Rounding to binary64 is not modelled.
Pearson(t, a, b) ==
    LET c == CovN(t, a, b)
        v == CovN(t, a, a) * CovN(t, b, b)
    IN  IF v = 0 THEN NaN
        ELSE Fraction((IF c < 0 THEN -1 ELSE 1) * c * c, v)

\* df[vars_corr].corr() (line 104)
CorrMatrix(t) ==
    [p \in {<<vars_corr[i], vars_corr[j]>> : i, j \in 1..Len(vars_corr)} |->
        Pearson(t, p[1], p[2])]

\* linregress(df["diet_score"], df["cognitive_score"]) (line 118) for a
\* non-constant diet_score: slope and intercept as fractions, r as in Pearson.
\* The p-value is not modelled.
LinRegress(t) ==
    LET n == Len(t)
        x == Column(t, "diet_score")
        y == Column(t, "cognitive_score")
        c == CovN(t, "diet_score", "cognitive_score")
        v == CovN(t, "diet_score", "diet_score")
    IN  [slope |-> Fraction(c, v),
         intercept |-> Fraction(Sum(y) * v - c * Sum(x), n * v),
         r |-> Pearson(t, "diet_score", "cognitive_score")]

(***************************************************************************)
(* The script, one action per statement group.                             *)
(***************************************************************************)
Emit(kind, value) == out' = Append(out, [kind |-> kind, value |-> value])

OutKinds == {out[i].kind : i \in 1..Len(out)}

\* A pass that starts its loop without lines 22-24.
StartNoReset ==
    /\ pc = "start"
    /\ pc' = "ask"
    /\ idx' = 0
    /\ UNCHANGED <<score, healthy, unhealthy, total, percent_healthy, widgets,
                   out, file, cache, dataVars, passes, ref>>

\* lines 22-24, executed at the top of every pass
Start ==
    /\ pc = "start"
    /\ score' = 0
    /\ healthy' = 0
    /\ unhealthy' = 0
    /\ pc' = "ask"
    /\ idx' = 0
    /\ UNCHANGED <<total, percent_healthy, widgets, out, file, cache, dataVars,
                   passes, ref>>

\* One turn of the loop of lines 50-51: ask() (lines 26-35) for the question
\* at index idx.  idx is the index of the next question to ask.
Ask ==
    /\ pc = "ask"
    /\ idx < NumQuestions
    /\ LET ans == Selectbox(idx)
           delta == Delta(idx, ans)
       IN  /\ score' = score + delta
           /\ healthy' = CountHealthy(healthy, delta)
           /\ unhealthy' = CountUnhealthy(unhealthy, delta)
    /\ idx' = idx + 1
    /\ pc' = IF idx + 1 = NumQuestions THEN "percent" ELSE "ask"
    /\ UNCHANGED <<total, percent_healthy, widgets, out, file, cache, dataVars,
                   passes, ref>>

\* lines 54-55
Percent ==
    /\ pc = "percent"
    /\ total' = healthy + unhealthy
    /\ percent_healthy' = PercentHealthy(healthy, healthy + unhealthy)
    /\ pc' = "results"
    /\ UNCHANGED <<idx, score, healthy, unhealthy, widgets, out, file, cache,
                   dataVars, passes, ref>>

QuizResult == <<score, healthy, unhealthy, percent_healthy>>

\* lines 58-61.  The history variable ref may keep the first results shown
\* that an observer chooses to remember.
QuizResults ==
    /\ pc = "results"
    /\ out' = out \o << [kind |-> "score", value |-> score],
                        [kind |-> "counts", value |-> <<healthy, unhealthy>>],
                        [kind |-> "percent", value |-> percent_healthy] >>
    /\ \E remember \in BOOLEAN :
          ref' = IF remember /\ ref = None
                 THEN Some([answers |-> widgets, result |-> QuizResult,
                            pass |-> passes])
                 ELSE ref
    /\ pc' = "pie"
    /\ UNCHANGED <<quizVars, widgets, file, cache, dataVars, passes>>

\* lines 64-67
Pie ==
    /\ pc = "pie"
    /\ Emit("pie", <<healthy, unhealthy>>)
    /\ pc' = "load"
    /\ UNCHANGED <<quizVars, widgets, file, cache, dataVars, passes, ref>>

\* line 86: df = load_and_prepare() under @st.cache_data (lines 74-75).  The
\* function takes no argument, so the memo has a single entry: once a call
\* has returned, every later call returns the stored table without running
\* the body.  A call that raises stores nothing.  FileNotFoundError is
\* caught at line 131.
Load ==
    /\ pc = "load"
    /\ IF cache # None
       THEN /\ df' = The(cache)
            /\ pc' = "preview"
            /\ UNCHANGED cache
       ELSE IF file = Absent
       THEN /\ pc' = "notfound"
            /\ UNCHANGED <<df, cache>>
       ELSE /\ df' = load_and_prepare(The(file))
            /\ cache' = Some(load_and_prepare(The(file)))
            /\ pc' = "preview"
    /\ UNCHANGED <<quizVars, widgets, out, file, corr, reg, passes, ref>>

\* lines 87-88: df.head()
Preview ==
    /\ pc = "preview"
    /\ Emit("preview", SubSeq(df, 1, IF Len(df) < 5 THEN Len(df) ELSE 5))
    /\ pc' = "hist"
    /\ UNCHANGED <<quizVars, widgets, file, cache, dataVars, passes, ref>>

\* lines 91-100: the two series handed to hist()
Hist ==
    /\ pc = "hist"
    /\ Emit("hist", <<Column(df, "diet_score"), Column(df, "cognitive_score")>>)
    /\ pc' = "corr"
    /\ UNCHANGED <<quizVars, widgets, file, cache, dataVars, passes, ref>>

\* lines 103-113
Correlate ==
    /\ pc = "corr"
    /\ corr' = CorrMatrix(df)
    /\ Emit("corr", CorrMatrix(df))
    /\ pc' = "regress"
    /\ UNCHANGED <<quizVars, widgets, file, cache, df, reg, passes, ref>>

\* lines 116-120.  With a constant diet_score column linregress raises
\* ValueError or returns NaNs, depending on the SciPy release; the ValueError
\* is not caught and ends the pass.
Regress ==
    /\ pc = "regress"
    /\ IF CovN(df, "diet_score", "diet_score") # 0
       THEN /\ reg' = LinRegress(df)
            /\ Emit("regression", LinRegress(df))
            /\ pc' = "scatter"
       ELSE \E raises \in BOOLEAN :
               IF raises
               THEN /\ pc' = "crashed"
                    /\ UNCHANGED <<reg, out>>
               ELSE /\ reg' = [slope |-> NaN, intercept |-> NaN, r |-> NaN]
                    /\ Emit("regression", [slope |-> NaN, intercept |-> NaN, r |-> NaN])
                    /\ pc' = "scatter"
    /\ UNCHANGED <<quizVars, widgets, file, cache, df, corr, passes, ref>>

\* lines 123-129
Scatter ==
    /\ pc = "scatter"
    /\ Emit("scatter", [points |-> [i \in 1..Len(df) |->
                            <<df[i]["diet_score"], df[i]["cognitive_score"]>>],
                        line |-> reg])
    /\ pc' = "references"
    /\ UNCHANGED <<quizVars, widgets, file, cache, dataVars, passes, ref>>

\* lines 131-132
NotFound ==
    /\ pc = "notfound"
    /\ Emit("error", "Data file 'brain_diet_data.csv' not found.")
    /\ pc' = "references"
    /\ UNCHANGED <<quizVars, widgets, file, cache, dataVars, passes, ref>>

\* lines 137-142
References ==
    /\ pc = "references"
    /\ Emit("references", 3)
    /\ pc' = "done"
    /\ UNCHANGED <<quizVars, widgets, file, cache, dataVars, passes, ref>>

(***************************************************************************)
(* The environment: the user and the file system.  The script is run again *)
(* from line 1 on every interaction; a rerun may cut a running pass short. *)
(* The variables of the script keep their old values in the model: the     *)
(* script assigns each of them before it reads it.  The memo of            *)
(* st.cache_data belongs to the server process and outlives the pass.      *)
(***************************************************************************)
\* The user reruns the page without changing an answer.
Rerun ==
    /\ pc # "start"
    /\ passes < MaxPasses
    /\ passes' = passes + 1
    /\ pc' = "start"
    /\ out' = <<>>
    /\ UNCHANGED <<quizVars, widgets, file, cache, dataVars, ref>>

\* The user picks another option of one question, which reruns the script.
Select ==
    /\ pc # "start"
    /\ passes < MaxPasses
    /\ \E q \in 0..(NumQuestions - 1) :
          \E l \in Options(q) \ {Selectbox(q)} :
             widgets' = [widgets EXCEPT ![q + 1] = l]
    /\ passes' = passes + 1
    /\ pc' = "start"
    /\ out' = <<>>
    /\ UNCHANGED <<quizVars, file, cache, dataVars, ref>>

\* Between two passes the file is replaced, created or deleted.
ChangeSource ==
    /\ pc = "done"
    /\ \E f \in Files(Fixtures) \ {file} : file' = f
    /\ UNCHANGED <<pc, quizVars, widgets, out, cache, dataVars, passes, ref>>

(***************************************************************************)
(* Specifications.                                                         *)
(***************************************************************************)
\* A pass starts with nothing memoized yet: the session's answers are one of
\* answerSets and the file is one of files.
InitWith(answerSets, files) ==
    /\ pc = "start"
    /\ idx = 0
    /\ score = 0
    /\ healthy = 0
    /\ unhealthy = 0
    /\ total = 0
    /\ percent_healthy = 0
    /\ widgets \in answerSets
    /\ out = <<>>
    /\ file \in files
    /\ cache = None
    /\ df = <<>>
    /\ corr = <<>>
    /\ reg = <<>>
    /\ passes = 1
    /\ ref = None

QuizPart == Start \/ Ask \/ Percent \/ QuizResults \/ Pie

DataPart ==
    Load \/ Preview \/ Hist \/ Correlate \/ Regress \/ Scatter \/ NotFound
    \/ References

\* The application: passes over a file that changes between them.
Init == InitWith({Defaults, BestAnswers, WorstAnswers}, Files(Fixtures))
Next == QuizPart \/ DataPart \/ Rerun \/ ChangeSource
Spec == Init /\ [][Next]_vars

\* The quiz of one pass, for every combination of offered options.
InitQuiz ==
    InitWith(AnswerSets([q \in 1..NumQuestions |-> Options(q - 1)], NumQuestions),
             {Absent})
NextQuiz == QuizPart
SpecQuiz == InitQuiz /\ [][NextQuiz]_vars

\* The quiz of one pass, for labels inside and outside the offered options.
AnyLabel(i) ==
    {questions[i + 1].options[1],
     questions[i + 1].options[Len(questions[i + 1].options)], "Daily", Other}
InitAny ==
    InitWith(AnswerSets([q \in 1..NumQuestions |-> AnyLabel(q - 1)], NumQuestions),
             {Absent})
SpecAny == InitAny /\ [][NextQuiz]_vars

\* A session: the quiz is scored again after every interaction.
InitRerun == InitWith({Defaults}, {Absent})
NextRerun == QuizPart \/ Rerun \/ Select
SpecRerun == InitRerun /\ [][NextRerun]_vars

\* One pass over every generated file, and over none.
InitTable == InitWith({Defaults}, Files(Tables))
NextTable == QuizPart \/ DataPart
SpecTable == InitTable /\ [][NextTable]_vars

(***************************************************************************)
(* Properties.                                                             *)
(***************************************************************************)
\* The loop of lines 50-51 has asked every question of the running pass.
LoopDone == pc \notin {"start", "ask"}

\* percent_healthy of the running pass has been computed.
PercentDone == pc \notin {"start", "ask", "percent"}

DeltaOf(w, q) == Delta(q - 1, w[q])

ExpectedScore(w) == Sum([q \in 1..NumQuestions |-> DeltaOf(w, q)])
ExpectedHealthy(w) == Cardinality({q \in 1..NumQuestions : DeltaOf(w, q) > 0})
ExpectedUnhealthy(w) == Cardinality({q \in 1..NumQuestions : DeltaOf(w, q) < 0})

\* C1: once the loop has asked the 8 questions, score is the sum of the deltas
\* of the selected labels, healthy the number of positive deltas and unhealthy
\* the number of negative ones; the best answers give (17, 6, 0) and the
\* worst (-4, 0, 2).
C1_ScoringPass ==
    LoopDone =>
        /\ score = ExpectedScore(widgets)
        /\ healthy = ExpectedHealthy(widgets)
        /\ unhealthy = ExpectedUnhealthy(widgets)
        /\ widgets = BestAnswers => <<score, healthy, unhealthy>> = <<17, 6, 0>>
        /\ widgets = WorstAnswers => <<score, healthy, unhealthy>> = <<-4, 0, 2>>

C1_Witness ==
    /\ pc = "percent"
    /\ widgets = BestAnswers
    /\ <<score, healthy, unhealthy>> = <<17, 6, 0>>

\* C2: percent_healthy is floor(100 * healthy / (healthy + unhealthy)) when a
\* count is non-zero and 0 when both are zero; it lies in 0..100; with only
\* zero-delta answers the score and the percentage are 0.
C2_PercentHealthy ==
    PercentDone =>
        /\ total = healthy + unhealthy
        /\ total > 0 => percent_healthy = (100 * healthy) \div total
        /\ total = 0 => percent_healthy = 0
        /\ percent_healthy \in 0..100
        /\ (\A q \in 1..NumQuestions : DeltaOf(widgets, q) = 0)
               => score = 0 /\ percent_healthy = 0

C2_Witness ==
    /\ pc = "results"
    /\ healthy = 2
    /\ unhealthy = 1
    /\ percent_healthy = 66

\* C3: an ask step whose selected label has no entry in the question's
\* mapping leaves score, healthy and unhealthy unchanged and goes on to the
\* next question.
C3_UnmappedLabel ==
    [][(pc = "ask" /\ Selectbox(idx) \notin DOMAIN questions[idx + 1].mapping)
          => /\ score' = score
             /\ healthy' = healthy
             /\ unhealthy' = unhealthy
             /\ idx' = idx + 1
             /\ pc' \in {"ask", "percent"}]_vars

\* An answer set with a label outside the options, a zero-tier option and a
\* label that only other questions map, scored to the end.
C3_Witness ==
    /\ pc = "percent"
    /\ widgets[1] = Other
    /\ widgets[2] = "None"
    /\ widgets[3] = "Daily"
    /\ widgets[4] = "5+"
    /\ score = 3 + Delta(4, widgets[5]) + Delta(5, widgets[6])
                 + Delta(6, widgets[7]) + Delta(7, widgets[8])

\* C4 speaks of answer sets in which all 8 selected labels have a positive
\* delta.  No label has a positive delta at questions 7 and 8.
C4_NoPositiveDelta ==
    \A q \in {7, 8} : \A l \in DOMAIN questions[q].mapping :
        questions[q].mapping[l] < 0

\* C5: two passes with the same answers show the same results, whatever was
\* scored before them, and a pass starts its loop with the accumulators at 0.
C5_Deterministic ==
    /\ (PercentDone /\ ref # None /\ The(ref).answers = widgets)
           => The(ref).result = QuizResult
    /\ (pc = "ask" /\ idx = 0) => score = 0 /\ healthy = 0 /\ unhealthy = 0

C5_Witness ==
    /\ pc = "pie"
    /\ passes = 3
    /\ ref # None
    /\ The(ref).pass = 1
    /\ The(ref).answers = widgets
    /\ The(ref).result = QuizResult

AnalyzerKinds == {"preview", "hist", "corr", "regression", "scatter"}

QuizOutputs == SubSeq(out, 1, 4)

ExpectedQuizOutputs(w) ==
    LET h == ExpectedHealthy(w)
        u == ExpectedUnhealthy(w)
        p == IF h + u > 0 THEN (100 * h) \div (h + u) ELSE 0
    IN  << [kind |-> "score", value |-> ExpectedScore(w)],
           [kind |-> "counts", value |-> <<h, u>>],
           [kind |-> "percent", value |-> p],
           [kind |-> "pie", value |-> <<h, u>>] >>

\* C6: a pass that finds the file absent shows the error message and none of
\* the analyzer outputs, reaches the references, and shows the quiz outputs
\* its answers determine.
C6_MissingFile ==
    (pc = "references" /\ file = Absent) =>
        /\ "error" \in OutKinds
        /\ OutKinds \cap AnalyzerKinds = {}
        /\ QuizOutputs = ExpectedQuizOutputs(widgets)

\* What holds of the code instead: the pass whose call of load_and_prepare
\* raises (the file is absent and nothing is memoized) behaves as C6 says.
C6_WhenLoadRaises ==
    (pc = "references" /\ file = Absent /\ cache = None) =>
        /\ "error" \in OutKinds
        /\ OutKinds \cap AnalyzerKinds = {}
        /\ QuizOutputs = ExpectedQuizOutputs(widgets)

\* C7: the table load_and_prepare returns to a pass is the table a fresh read
\* and derivation of the file would return to that pass.
C7_MemoTransparent ==
    pc = "preview" => file # Absent /\ df = load_and_prepare(The(file))

\* Twelve input columns of one row, in the order of the specification.
Inputs(r) ==
    <<r.leafy_greens, r.berries, r.fish, r.nuts, r.olive_oil, r.red_meat,
      r.sweets, r.fast_food, r.cognitive_score, r.microbiome_diversity,
      r.amyloid_beta, r.tau_protein>>

\* The pass has a table: load_and_prepare has returned.
Loaded == pc \in {"preview", "hist", "corr", "regress", "scatter"}

Names(columns) == {columns[i] : i \in 1..Len(columns)}

\* At least two rows and no constant column among the five correlated ones.
NonDegenerate(t) ==
    /\ Len(t) >= 2
    /\ \A c \in Names(vars_corr) : \E i, j \in 1..Len(t) : t[i][c] # t[j][c]

\* C9: for a non-degenerate table the correlation matrix is symmetric and has
\* 1 on its diagonal.
C9_CorrelationMatrix ==
    (pc \in {"regress", "scatter"} /\ NonDegenerate(df)) =>
        /\ \A a, b \in Names(vars_corr) : corr[<<a, b>>] = corr[<<b, a>>]
        /\ \A a \in Names(vars_corr) : corr[<<a, a>>] = <<1, 1>>

C9_Witness ==
    /\ pc = "regress"
    /\ NonDegenerate(df)
    /\ corr[<<"diet_score", "amyloid_beta">>] # NaN
    /\ corr[<<"diet_score", "amyloid_beta">>][1] < 0
    /\ corr[<<"amyloid_beta", "diet_score">>] = corr[<<"diet_score", "amyloid_beta">>]
    /\ corr[<<"diet_score", "cognitive_score">>] # <<1, 1>>

\* The number of ask steps the pass has taken.
Asked == IF pc = "start" THEN 0 ELSE idx

C10_Bounds ==
    /\ healthy \in 0..6
    /\ unhealthy \in 0..2
    /\ healthy + unhealthy <= Asked
    /\ healthy - 2 * unhealthy <= score
    /\ score <= 3 * healthy - unhealthy
    /\ LoopDone => score \in -4..17

\* C10: after any prefix of k ask steps 0 <= healthy <= 6, 0 <= unhealthy <= 2,
\* healthy + unhealthy <= k and healthy - 2*unhealthy <= score <=
\* 3*healthy - unhealthy; healthy grows only at questions 1-6 and unhealthy
\* only at questions 7-8; the final score lies in -4..17.
C10_LoopInvariant ==
    /\ []C10_Bounds
    /\ [][pc = "ask" =>
            /\ healthy' >= healthy
            /\ unhealthy' >= unhealthy
            /\ idx >= 6 => healthy' = healthy
            /\ idx < 6 => unhealthy' = unhealthy]_vars

C10_Witness ==
    /\ pc = "ask"
    /\ idx = 7
    /\ healthy = 6
    /\ unhealthy = 1
    /\ score = 16

====
